---------------------------- MODULE Spec2Model ----------------------------
(***************************************************************************)
(* Flask_Telemetry (src/main.py): a Flask application served by waitress   *)
(* that answers GET /house with the latest InfluxDB readings of four       *)
(* sensor fields, folded into a fixed-order JSON object.                   *)
(*                                                                         *)
(* Four specifications share the variables below:                          *)
(*   FoldSpec  process_query_results, one loop iteration per step          *)
(*   BootSpec  module import and the __main__ block up to serve()          *)
(*   Spec      the served application: requests, store replies, responses  *)
(*   PoolSpec  the same server with more requests than worker threads,     *)
(*             under the fairness of the waitress task dispatcher          *)
(***************************************************************************)
EXTENDS Integers, Sequences, FiniteSets, TLC

VARIABLES
    \* process_query_results (FoldSpec)
    result,        \* the query result being folded: a sequence of tables
    ti,            \* index of the table the outer loop is at
    ri,            \* index of the record the inner loop is at
    sensor_data,   \* the OrderedDict: a sequence of <<key, value>> pairs
    fold_pc,       \* "loop" | "returned"
    \* start-up (BootSpec)
    env,           \* os.environ after load_dotenv(): name -> optional string
    boot_pc,       \* position in the module body and the __main__ block
    boot_error,    \* the exception that ended start-up, if any
    config,        \* influxdb_url, token, org, bucket (lines 36-39)
    client,        \* the InfluxDBClient handle (line 42), if created
    sock,          \* the UDP socket of get_local_ip: "none" | "open" | "closed"
    local_ip,      \* the value get_local_ip returned, if it returned
    listener,      \* <<host, port>> once serve() has bound, else <<>>
    \* the served application (Spec, PoolSpec)
    next_id,       \* number of requests accepted so far
    queue,         \* waitress task queue: accepted requests awaiting a thread
    pc,            \* per request: "new" | "queued" | "waiting" | "replied" | "done"
    path,          \* per request: "/" or "/house"
    store,         \* per request: how the store treats its query
    queries,       \* per request: number of queries sent to the store
    reply,         \* per request: what query_api.query returned or raised
    response,      \* per request: the HTTP response, once sent
    console        \* per request: the line its handler printed, if any

foldVars == <<result, ti, ri, sensor_data, fold_pc>>
bootVars == <<env, boot_pc, boot_error, config, client, sock, local_ip, listener>>
reqVars  == <<next_id, queue, pc, path, store, queries, reply, response, console>>
vars     == <<result, ti, ri, sensor_data, fold_pc,
              env, boot_pc, boot_error, config, client, sock, local_ip, listener,
              next_id, queue, pc, path, store, queries, reply, response, console>>

(***************************************************************************)
(* Bounds of the model.                                                    *)
(***************************************************************************)
\* total number of records in a folded query result
MaxRecords == 3
\* number of tables in a folded query result
MaxTables == 2
\* number of requests the server accepts in Spec
MaxRequests == 3
\* number of requests beyond the worker threads accepted in PoolSpec
ExtraRequests == 1

(***************************************************************************)
(* Python values.  None and optional values are sequences of length 0 or   *)
(* 1, so that every stored value is comparable with every other.           *)
(***************************************************************************)
None == <<>>

Some(x) == <<x>>

\* store-native values (spec section 3: numeric, string or boolean).  A float
\* is held in tenths: [t |-> "float", n |-> 215] is 21.5.
IntVal(n) == [t |-> "int", n |-> n, s |-> ""]

FloatVal(tenths) == [t |-> "float", n |-> tenths, s |-> ""]

BoolVal(b) == [t |-> "bool", n |-> IF b THEN 1 ELSE 0, s |-> ""]

StrVal(s) == [t |-> "str", n |-> 0, s |-> s]

Digits == <<"0", "1", "2", "3", "4", "5", "6", "7", "8", "9">>

RECURSIVE NatStr(_)
NatStr(n) == IF n < 10 THEN Digits[n + 1]
             ELSE NatStr(n \div 10) \o Digits[(n % 10) + 1]

Abs(n) == IF n < 0 THEN -n ELSE n

Sign(n) == IF n < 0 THEN "-" ELSE ""

\* str(value), line 74
Str(v) ==
    CASE v.t = "int"   -> Sign(v.n) \o NatStr(Abs(v.n))
      [] v.t = "float" -> Sign(v.n) \o NatStr(Abs(v.n) \div 10) \o "." \o Digits[(Abs(v.n) % 10) + 1]
      [] v.t = "bool"  -> IF v.n = 1 THEN "True" ELSE "False"
      [] v.t = "str"   -> v.s

(***************************************************************************)
(* OrderedDict, as process_query_results uses it.                          *)
(***************************************************************************)
Keys(d) == [i \in 1..Len(d) |-> d[i][1]]

\* field in sensor_data, line 73
Contains(d, k) == \E i \in 1..Len(d) : d[i][1] = k

\* d[k], for a key d holds
Get(d, k) == LET i == CHOOSE j \in 1..Len(d) : d[j][1] = k IN d[i][2]

\* d[k] = v: an existing key keeps its position, a new key is appended
SetItem(d, k, v) ==
    IF Contains(d, k)
    THEN [i \in 1..Len(d) |-> IF d[i][1] = k THEN <<k, v>> ELSE d[i]]
    ELSE Append(d, <<k, v>>)

\* A plain mapping with its keys in alphabetical order.
SortedSensorData ==
    << <<"Humidity", None>>, <<"Pressure", None>>,
       <<"Sensor", None>>, <<"Temperature", None>> >>

\* lines 61-66
NewSensorData ==
    << <<"Temperature", None>>, <<"Humidity", None>>,
       <<"Pressure", None>>, <<"Sensor", None>> >>

\* The loop body without the membership test of line 73.
FoldRecordUnguarded(d, record) == SetItem(d, record.field, Some(Str(record.value)))

\* The loop body keeping the first value seen for a field.
FoldRecordFirstWins(d, record) ==
    IF Contains(d, record.field) /\ Get(d, record.field) = None
    THEN SetItem(d, record.field, Some(Str(record.value)))
    ELSE d

\* lines 70-74: the body of the inner loop
FoldRecord(d, record) ==
    IF Contains(d, record.field)
    THEN SetItem(d, record.field, Some(Str(record.value)))
    ELSE d

\* lines 69-74: the inner loop over table.records
RECURSIVE FoldTable(_, _)
FoldTable(d, records) ==
    IF records = <<>> THEN d
    ELSE FoldTable(FoldRecord(d, Head(records)), Tail(records))

\* lines 68-74: the outer loop over the tables
RECURSIVE FoldTables(_, _)
FoldTables(d, tables) ==
    IF tables = <<>> THEN d
    ELSE FoldTables(FoldTable(d, Head(tables)), Tail(tables))

\* lines 59-75
process_query_results(res) == FoldTables(NewSensorData, res)

(***************************************************************************)
(* Query results the store may return: every way of cutting a sequence of  *)
(* at most MaxRecords records into at most MaxTables tables.               *)
(***************************************************************************)
Rec(f, v) == [field |-> f, value |-> v]

RecordSet ==
    { Rec("Temperature", FloatVal(215)), Rec("Temperature", FloatVal(218)),
      Rec("Humidity", IntVal(55)), Rec("Pressure", FloatVal(10132)),
      Rec("Sensor", StrVal("OK")), Rec("Sensor", BoolVal(TRUE)),
      Rec("Battery", IntVal(-3)), Rec("temperature", FloatVal(-5)) }

SeqsUpTo(S, n) == UNION { [1..k -> S] : k \in 0..n }

\* the tables of s cut after the positions c[1] <= ... <= c[k-1]
Split(s, c) ==
    LET k == Len(c) + 1
        lo(j) == IF j = 1 THEN 1 ELSE c[j - 1] + 1
        hi(j) == IF j = k THEN Len(s) ELSE c[j]
    IN  [j \in 1..k |-> SubSeq(s, lo(j), hi(j))]

Cuts(n, k) ==
    { c \in [1..(k - 1) -> 0..n] : \A j \in 1..(k - 2) : c[j] <= c[j + 1] }

\* res is a sequence of at most MaxRecords records cut into at most MaxTables
\* tables, or the result without tables
IsResult(res) ==
    \/ res = <<>>
    \/ \E s \in SeqsUpTo(RecordSet, MaxRecords), k \in 1..MaxTables :
          \E c \in Cuts(Len(s), k) : res = Split(s, c)

(***************************************************************************)
(* FoldSpec: process_query_results, one loop iteration per step.           *)
(***************************************************************************)
FoldIdle ==
    /\ result = <<>>
    /\ ti = 1
    /\ ri = 1
    /\ sensor_data = <<>>
    /\ fold_pc = "idle"

\* lines 68-69 and 70-74: the inner loop takes the next record of the table
ForRecord ==
    /\ fold_pc = "loop"
    /\ ti <= Len(result)
    /\ ri <= Len(result[ti])
    /\ sensor_data' = FoldRecord(sensor_data, result[ti][ri])
    /\ ri' = ri + 1
    /\ UNCHANGED <<result, ti, fold_pc>>

\* line 68: the inner loop is exhausted, the outer loop takes the next table
ForTable ==
    /\ fold_pc = "loop"
    /\ ti <= Len(result)
    /\ ri > Len(result[ti])
    /\ ti' = ti + 1
    /\ ri' = 1
    /\ UNCHANGED <<result, sensor_data, fold_pc>>

\* line 75
Return ==
    /\ fold_pc = "loop"
    /\ ti > Len(result)
    /\ fold_pc' = "returned"
    /\ UNCHANGED <<result, ti, ri, sensor_data>>

(***************************************************************************)
(* Start-up: the module body (lines 11-43) and the __main__ block          *)
(* (lines 105-111).                                                        *)
(***************************************************************************)
\* line 15
required_vars == <<"INFLUXDB_URL", "INFLUXDB_TOKEN", "INFLUXDB_ORG", "INFLUXDB_BUCKET">>

RequiredSet == { required_vars[i] : i \in 1..Len(required_vars) }

\* os.getenv(var): None when unset, else the string (possibly empty)
EnvValues == { None, Some(""), Some("set") }

\* A presence test that accepts the empty string.
IsUnset(v) == v = None

\* not os.getenv(var), line 16: None and "" are both falsy
IsMissing(v) == v = None \/ v = Some("")

\* the list comprehension of line 16, in the order of required_vars
RECURSIVE MissingFrom(_, _)
MissingFrom(names, e) ==
    IF names = <<>> THEN <<>>
    ELSE (IF IsMissing(e[Head(names)]) THEN <<Head(names)>> ELSE <<>>)
         \o MissingFrom(Tail(names), e)

\* sep.join(names), line 18
RECURSIVE Join(_, _)
Join(names, sep) ==
    IF names = <<>> THEN ""
    ELSE IF Len(names) = 1 THEN names[1]
    ELSE names[1] \o sep \o Join(Tail(names), sep)

\* line 18
EnvironmentError(missing) ==
    [type |-> "EnvironmentError", names |-> missing,
     msg |-> "Missing environment variables: " \o Join(missing, ", ")]

\* an error raised by socket.socket(), line 93
OSError == [type |-> "OSError", names |-> <<>>, msg |-> "socket creation failed"]

\* line 99
Loopback == "127.0.0.1"

\* addresses getsockname() may report
LocalAddresses == { "192.168.1.20", "10.0.0.7" }

\* line 107
port == 5000

BootIdle(ip) ==
    /\ env = [v \in RequiredSet |-> Some("set")]
    /\ boot_pc = "serving"
    /\ boot_error = None
    /\ config = [influxdb_url |-> Some("set"), token |-> Some("set"),
                 org |-> Some("set"), bucket |-> Some("set")]
    /\ client = Some([url |-> Some("set"), token |-> Some("set"), org |-> Some("set")])
    /\ sock = "closed"
    /\ local_ip = Some(ip)
    /\ listener = <<ip, port>>

\* lines 14-21
check_env_variables ==
    /\ boot_pc = "import"
    /\ LET missing_vars == MissingFrom(required_vars, env)
       IN  IF missing_vars # <<>>
           THEN /\ boot_error' = Some(EnvironmentError(missing_vars))
                /\ boot_pc' = "aborted"
           ELSE /\ boot_error' = boot_error
                /\ boot_pc' = "checked"
    /\ UNCHANGED <<env, config, client, sock, local_ip, listener>>

\* lines 23-43: the settings are read and the client is created
CreateClient ==
    /\ boot_pc = "checked"
    /\ config' = [influxdb_url |-> env["INFLUXDB_URL"], token |-> env["INFLUXDB_TOKEN"],
                  org |-> env["INFLUXDB_ORG"], bucket |-> env["INFLUXDB_BUCKET"]]
    /\ client' = Some([url |-> env["INFLUXDB_URL"], token |-> env["INFLUXDB_TOKEN"],
                       org |-> env["INFLUXDB_ORG"]])
    /\ boot_pc' = "main"
    /\ UNCHANGED <<env, boot_error, sock, local_ip, listener>>

\* lines 106 and 93: socket.socket() is called before the try block, so an
\* error it raises leaves get_local_ip and ends the __main__ block
SocketCreate(ok) ==
    /\ boot_pc = "main"
    /\ IF ok
       THEN /\ sock' = "open"
            /\ boot_pc' = "connect"
            /\ boot_error' = boot_error
       ELSE /\ sock' = sock
            /\ boot_pc' = "crashed"
            /\ boot_error' = Some(OSError)
    /\ UNCHANGED <<env, config, client, local_ip, listener>>

\* line 96, and on an error lines 98-102
SocketConnect(ok) ==
    /\ boot_pc = "connect"
    /\ IF ok
       THEN /\ boot_pc' = "getsockname"
            /\ UNCHANGED <<sock, local_ip>>
       ELSE /\ local_ip' = Some(Loopback)
            /\ sock' = "closed"
            /\ boot_pc' = "serve"
    /\ UNCHANGED <<env, boot_error, config, client, listener>>

\* line 97, and lines 98-102
GetSockName(ok, addr) ==
    /\ boot_pc = "getsockname"
    /\ local_ip' = IF ok THEN Some(addr) ELSE Some(Loopback)
    /\ sock' = "closed"
    /\ boot_pc' = "serve"
    /\ UNCHANGED <<env, boot_error, config, client, listener>>

\* lines 107-111
Serve ==
    /\ boot_pc = "serve"
    /\ listener' = <<local_ip[1], port>>
    /\ boot_pc' = "serving"
    /\ UNCHANGED <<env, boot_error, config, client, sock, local_ip>>

(***************************************************************************)
(* The served application.  waitress accepts connections and hands each    *)
(* request to one of its worker threads; serve() is called without a       *)
(* threads argument (line 111), so the pool has waitress's default size.   *)
(***************************************************************************)
\* serve(app, host=local_ip, port=port), line 111: waitress's default
threads == 4

\* what query_api.query (line 82) does for one request
QueryOk(res) == [ok |-> TRUE, result |-> res, error |-> ""]

QueryRaises(e) == [ok |-> FALSE, result |-> <<>>, error |-> e]

\* results the store returns in Spec
StoreResults ==
    { <<>>,
      << <<Rec("Temperature", FloatVal(215)), Rec("Temperature", FloatVal(218))>> >>,
      << <<Rec("Temperature", FloatVal(215))>>,
         <<Rec("Humidity", IntVal(55)), Rec("Battery", IntVal(-3))>>,
         <<Rec("Pressure", FloatVal(10132))>>,
         <<Rec("Sensor", StrVal("OK \"A\"\\1"))>> >> }

\* str(e) of the exceptions query_api.query raises
StoreErrors == { "timed out", "unauthorized access" }

\* str(e) of an exception raised on lines 83-85
UnexpectedErrors == { "out of memory" }

Outcomes == { QueryOk(res) : res \in StoreResults } \cup { QueryRaises(e) : e \in StoreErrors }

PoolOutcomes == { QueryOk(<<>>) }

\* the printable ASCII characters json.dumps copies unchanged: all but the
\* double quote and the backslash (the grave accent, which a TLA+ string
\* cannot hold, is left out: a text with it is outside the model)
PlainChars ==
    " !#$%&'()*+,-./0123456789:;<=>?@ABCDEFGHIJKLMNOPQRSTUVWXYZ[]^_abcdefghijklmnopqrstuvwxyz{|}~"

PlainSet == { SubSeq(PlainChars, i, i) : i \in 1..Len(PlainChars) }

IsPlain(c) == c \in PlainSet

\* code points of characters outside ASCII, as json.dumps writes them under
\* ensure_ascii (its default); a character that is neither ASCII nor listed
\* here is outside the model, and escaping it is undefined
CodePoints ==
    << <<"°", "00b0">>, <<"µ", "00b5">>, <<"é", "00e9">>,
       <<"ä", "00e4">>, <<"ö", "00f6">>, <<"ü", "00fc">> >>

HasCodePoint(c) == \E i \in 1..Len(CodePoints) : CodePoints[i][1] = c

CodePoint(c) == CodePoints[CHOOSE i \in 1..Len(CodePoints) : CodePoints[i][1] = c][2]

\* json.dumps of one character of a string
EscapeChar(c) ==
    CASE IsPlain(c)      -> c
      [] c = "\""        -> "\\\""
      [] c = "\\"        -> "\\\\"
      [] c = "\n"        -> "\\n"
      [] c = "\r"        -> "\\r"
      [] c = "\t"        -> "\\t"
      [] c = "\f"        -> "\\f"
      [] HasCodePoint(c) -> "\\u" \o CodePoint(c)

RECURSIVE EscapeString(_)
EscapeString(s) ==
    IF s = "" THEN "" ELSE EscapeChar(Head(s)) \o EscapeString(Tail(s))

\* json.dumps of a str: quoted and escaped
JsonString(s) == "\"" \o EscapeString(s) \o "\""

\* json.dumps of a str or None value
JsonValue(v) == IF v = None THEN "null" ELSE JsonString(v[1])

\* json.dumps(sensor_data), line 84: the keys in the mapping's order
RECURSIVE JsonItems(_)
JsonItems(d) ==
    IF d = <<>> THEN ""
    ELSE JsonString(d[1][1]) \o ": " \o JsonValue(d[1][2])
         \o (IF Len(d) = 1 THEN "" ELSE ", " \o JsonItems(Tail(d)))

JsonObject(d) == "{" \o JsonItems(d) \o "}"

\* the texts of the mappings the store's results fold to, computed once
Dumped == [d \in { process_query_results(res) : res \in StoreResults } |-> JsonObject(d)]

\* json.dumps(sensor_data), line 84
JsonDumps(d) == IF d \in DOMAIN Dumped THEN Dumped[d] ELSE JsonObject(d)

\* Response(json_data, mimetype='application/json'), line 85
JsonResponse(body) == [status |-> 200, mimetype |-> "application/json", body |-> body]

\* abort(500, description=...), line 88: the body carries the description
Abort500(description) == [status |-> 500, mimetype |-> "text/html", body |-> description]

\* lines 29-32, returned by Flask with status 200 as text/html
IndexResponse ==
    [status |-> 200, mimetype |-> "text/html",
     body |-> "\n    <h1>Flask is running!</h1>\n    <p>Click <a href=\"/house\">here</a> to get telemetry of the house.</p>\n    "]

\* A description that repeats the exception.
LeakyDescription(e) == e

\* the description of line 88
AbortDescription(e) == "Internal Server Error while querying InfluxDB"

\* line 87
ErrorLine(e) == "Error querying InfluxDB: " \o e

\* A handler that answers 200 with what it has when a later step fails.
get_data_partial(rep, exc) ==
    IF rep.ok
    THEN [response |-> JsonResponse(IF exc = None
                                    THEN JsonDumps(process_query_results(rep.result))
                                    ELSE JsonDumps(<<>>)),
          console |-> None]
    ELSE [response |-> Abort500(AbortDescription(rep.error)),
          console |-> Some(ErrorLine(rep.error))]

\* lines 80-88 once query_api.query has returned or raised: rep is what it
\* did, exc the exception, if any, raised on lines 83-85
get_data_result(rep, exc) ==
    IF rep.ok /\ exc = None
    THEN [response |-> JsonResponse(JsonDumps(process_query_results(rep.result))),
          console |-> None]
    ELSE LET e == IF rep.ok THEN exc[1] ELSE rep.error
         IN  [response |-> Abort500(AbortDescription(e)),
              console |-> Some(ErrorLine(e))]

Requests == DOMAIN pc

\* requests that hold a worker thread
Busy == { r \in Requests : pc[r] \in {"waiting", "replied"} }

\* A listener that handles one request at a time.
CanRunSingle(r) ==
    /\ queue # <<>>
    /\ Head(queue) = r
    /\ Busy = {}

\* the task dispatcher hands the oldest queued request to an idle thread
CanRun(r) ==
    /\ queue # <<>>
    /\ Head(queue) = r
    /\ Cardinality(Busy) < threads

\* A slot shared by all requests: the reply that arrived for the
\* highest-numbered request still being handled.
SharedReply(r) ==
    LET live == { q \in Requests : pc[q] = "replied" }
        top  == CHOOSE q \in live : \A o \in live : o <= q
    IN  reply[top][1]

\* the local variable result of get_data, line 82
ReplyOf(r) == reply[r][1]

ReqInit(n) ==
    /\ next_id = 0
    /\ queue = <<>>
    /\ pc = [r \in 1..n |-> "new"]
    /\ path = [r \in 1..n |-> ""]
    /\ store = [r \in 1..n |-> ""]
    /\ queries = [r \in 1..n |-> 0]
    /\ reply = [r \in 1..n |-> None]
    /\ response = [r \in 1..n |-> None]
    /\ console = [r \in 1..n |-> None]

\* a client sends a request; m is how the store will treat its query
Accept(p, m) ==
    /\ boot_pc = "serving"
    /\ next_id < Cardinality(Requests)
    /\ p = "/" => m = "responsive"
    /\ LET r == next_id + 1
       IN  /\ next_id' = r
           /\ queue' = Append(queue, r)
           /\ pc' = [pc EXCEPT ![r] = "queued"]
           /\ path' = [path EXCEPT ![r] = p]
           /\ store' = [store EXCEPT ![r] = m]
    /\ UNCHANGED <<queries, reply, response, console>>

\* lines 27-32
index(r) ==
    /\ CanRun(r)
    /\ path[r] = "/"
    /\ queue' = Tail(queue)
    /\ pc' = [pc EXCEPT ![r] = "done"]
    /\ response' = [response EXCEPT ![r] = Some(IndexResponse)]
    /\ UNCHANGED <<next_id, path, store, queries, reply, console>>

\* lines 80-82: the query is built and sent; the thread waits for the store
get_data_query(r) ==
    /\ CanRun(r)
    /\ path[r] = "/house"
    /\ queue' = Tail(queue)
    /\ pc' = [pc EXCEPT ![r] = "waiting"]
    /\ queries' = [queries EXCEPT ![r] = @ + 1]
    /\ UNCHANGED <<next_id, path, store, reply, response, console>>

\* line 82: query_api.query returns the tables or raises
store_reply(r, o) ==
    /\ pc[r] = "waiting"
    /\ store[r] = "responsive"
    /\ reply' = [reply EXCEPT ![r] = Some(o)]
    /\ pc' = [pc EXCEPT ![r] = "replied"]
    /\ UNCHANGED <<next_id, queue, path, store, queries, response, console>>

\* A handler that sends the query again when it failed.
get_data_retry(r, exc) ==
    /\ pc[r] = "replied"
    /\ ReplyOf(r).ok \/ exc = None
    /\ IF ReplyOf(r).ok
       THEN LET out == get_data_result(ReplyOf(r), exc)
            IN  /\ response' = [response EXCEPT ![r] = Some(out.response)]
                /\ console' = [console EXCEPT ![r] = out.console]
                /\ pc' = [pc EXCEPT ![r] = "done"]
                /\ queries' = queries
       ELSE /\ queries' = [queries EXCEPT ![r] = @ + 1]
            /\ pc' = [pc EXCEPT ![r] = "waiting"]
            /\ UNCHANGED <<response, console>>
    /\ UNCHANGED <<next_id, queue, path, store, reply>>

\* lines 83-88: fold, serialize and respond, or log and abort(500)
get_data_finish(r, exc) ==
    /\ pc[r] = "replied"
    /\ ReplyOf(r).ok \/ exc = None
    /\ LET out == get_data_result(ReplyOf(r), exc)
       IN  /\ response' = [response EXCEPT ![r] = Some(out.response)]
           /\ console' = [console EXCEPT ![r] = out.console]
    /\ pc' = [pc EXCEPT ![r] = "done"]
    /\ UNCHANGED <<next_id, queue, path, store, queries, reply>>

Paths == { "/", "/house" }

StoreModes == { "responsive", "blocked" }

MaybeError == { None } \cup { Some(e) : e \in UnexpectedErrors }

(***************************************************************************)
(* The specifications.                                                     *)
(***************************************************************************)
FoldInit ==
    /\ IsResult(result)
    /\ ti = 1
    /\ ri = 1
    /\ sensor_data = NewSensorData
    /\ fold_pc = "loop"
    /\ BootIdle(Loopback)
    /\ ReqInit(0)

FoldNext ==
    \/ ForRecord /\ UNCHANGED <<bootVars, reqVars>>
    \/ ForTable /\ UNCHANGED <<bootVars, reqVars>>
    \/ Return /\ UNCHANGED <<bootVars, reqVars>>

FoldSpec == FoldInit /\ [][FoldNext]_vars

BootInit ==
    /\ env \in [RequiredSet -> EnvValues]
    /\ boot_pc = "import"
    /\ boot_error = None
    /\ config = [influxdb_url |-> None, token |-> None, org |-> None, bucket |-> None]
    /\ client = None
    /\ sock = "none"
    /\ local_ip = None
    /\ listener = <<>>
    /\ FoldIdle
    /\ ReqInit(0)

BootNext ==
    \/ check_env_variables /\ UNCHANGED <<foldVars, reqVars>>
    \/ CreateClient /\ UNCHANGED <<foldVars, reqVars>>
    \/ \E ok \in BOOLEAN : SocketCreate(ok) /\ UNCHANGED <<foldVars, reqVars>>
    \/ \E ok \in BOOLEAN : SocketConnect(ok) /\ UNCHANGED <<foldVars, reqVars>>
    \/ \E ok \in BOOLEAN, addr \in LocalAddresses :
          GetSockName(ok, addr) /\ UNCHANGED <<foldVars, reqVars>>
    \/ Serve /\ UNCHANGED <<foldVars, reqVars>>

BootSpec == BootInit /\ [][BootNext]_vars

Init ==
    /\ \E ip \in {Loopback} \cup LocalAddresses : BootIdle(ip)
    /\ FoldIdle
    /\ ReqInit(MaxRequests)

Next ==
    \/ \E p \in Paths, m \in StoreModes : Accept(p, m) /\ UNCHANGED <<foldVars, bootVars>>
    \/ \E r \in Requests : index(r) /\ UNCHANGED <<foldVars, bootVars>>
    \/ \E r \in Requests : get_data_query(r) /\ UNCHANGED <<foldVars, bootVars>>
    \/ \E r \in Requests, o \in Outcomes : store_reply(r, o) /\ UNCHANGED <<foldVars, bootVars>>
    \/ \E r \in Requests, exc \in MaybeError :
          get_data_finish(r, exc) /\ UNCHANGED <<foldVars, bootVars>>

Spec == Init /\ [][Next]_vars

PoolInit ==
    /\ BootIdle(Loopback)
    /\ FoldIdle
    /\ ReqInit(threads + ExtraRequests)

PoolDispatch == \E r \in Requests : index(r) \/ get_data_query(r)

PoolReply == \E r \in Requests, o \in PoolOutcomes : store_reply(r, o)

PoolFinish == \E r \in Requests : get_data_finish(r, None)

PoolNext ==
    \/ \E p \in Paths, m \in StoreModes : Accept(p, m) /\ UNCHANGED <<foldVars, bootVars>>
    \/ PoolDispatch /\ UNCHANGED <<foldVars, bootVars>>
    \/ PoolReply /\ UNCHANGED <<foldVars, bootVars>>
    \/ PoolFinish /\ UNCHANGED <<foldVars, bootVars>>

\* waitress runs a queued task as soon as a thread is idle, a responsive
\* store answers, and a handler whose query returned runs to its response;
\* nothing obliges a client to send a request or a blocked query to return
PoolSpec ==
    /\ PoolInit
    /\ [][PoolNext]_vars
    /\ WF_vars(PoolDispatch /\ UNCHANGED <<foldVars, bootVars>>)
    /\ WF_vars(PoolReply /\ UNCHANGED <<foldVars, bootVars>>)
    /\ WF_vars(PoolFinish /\ UNCHANGED <<foldVars, bootVars>>)

(***************************************************************************)
(* Properties of process_query_results (FoldSpec).                         *)
(***************************************************************************)
FourKeys == <<"Temperature", "Humidity", "Pressure", "Sensor">>

Recognized(f) == f \in {"Temperature", "Humidity", "Pressure", "Sensor"}

RECURSIVE Flatten(_)
Flatten(tables) ==
    IF tables = <<>> THEN <<>> ELSE Head(tables) \o Flatten(Tail(tables))

\* the records the loops have consumed so far, in iteration order
Processed ==
    Flatten(SubSeq(result, 1, ti - 1))
    \o (IF ti <= Len(result) THEN SubSeq(result[ti], 1, ri - 1) ELSE <<>>)

Folding == fold_pc \in {"loop", "returned"}

\* C1: in every state of the fold, from the initial mapping to the returned
\* one, the keys are exactly Temperature, Humidity, Pressure, Sensor in that
\* order, and a key for which no record has been consumed holds None; this
\* covers every result, the empty one included.
C1_FixedKeys ==
    Folding =>
        /\ Keys(sensor_data) = FourKeys
        /\ \A i \in 1..Len(sensor_data) :
              (\A j \in 1..Len(Processed) : Processed[j].field # sensor_data[i][1])
                  => sensor_data[i][2] = None
        /\ (fold_pc = "returned" => Processed = Flatten(result))

C1_Witness ==
    /\ fold_pc = "returned"
    /\ Len(result) = 2
    /\ sensor_data[1][2] # None
    /\ sensor_data[2][2] = None

\* C2: a recognized field carried by several consumed records holds the
\* string form of the value of the last of them in iteration order, within
\* a table or across tables; Temperature 21.5 then 21.8 yields "21.8".
C2_LastWriteWins ==
    Folding =>
        /\ \A i \in 1..Len(sensor_data) :
              LET hits == { j \in 1..Len(Processed) : Processed[j].field = sensor_data[i][1] }
                  last == CHOOSE j \in hits : \A h \in hits : h <= j
              IN  hits # {} => sensor_data[i][2] = Some(Str(Processed[last].value))
        /\ (/\ fold_pc = "returned"
            /\ Flatten(result) = <<Rec("Temperature", FloatVal(215)),
                                   Rec("Temperature", FloatVal(218))>>)
              => sensor_data[1] = <<"Temperature", Some("21.8")>>

C2_Witness ==
    /\ fold_pc = "returned"
    /\ result = << <<Rec("Temperature", FloatVal(215))>>, <<Rec("Temperature", FloatVal(218))>> >>
    /\ sensor_data[1] = <<"Temperature", Some("21.8")>>

\* the result without its records of unrecognized field name
StripTable(records) == SelectSeq(records, LAMBDA rec : Recognized(rec.field))

Strip(tables) == [j \in 1..Len(tables) |-> StripTable(tables[j])]

\* C3: the returned mapping of a result equals that of the same result with
\* every record of unrecognized field name removed, and has no fifth key.
C3_UnrecognizedIgnored ==
    fold_pc = "returned" =>
        /\ sensor_data = process_query_results(Strip(result))
        /\ Len(sensor_data) = Len(FourKeys)

C3_Witness ==
    /\ fold_pc = "returned"
    /\ \E j \in 1..Len(Processed) : Processed[j].field = "Battery"
    /\ \E j \in 1..Len(Processed) : Processed[j].field = "temperature"
    /\ sensor_data[4][2] = Some("OK")

(***************************************************************************)
(* Properties of start-up (BootSpec).                                      *)
(***************************************************************************)
MissingNames == { v \in RequiredSet : env[v] = None \/ env[v] = Some("") }

SeqRange(s) == { s[i] : i \in 1..Len(s) }

\* C6: once check_env_variables has run, start-up is aborted exactly when a
\* required variable is unset or empty; the error names exactly those
\* variables, once each, and after the abort no client exists and no
\* listener is bound.
C6_AbortIffMissing ==
    boot_pc # "import" =>
        /\ (boot_pc = "aborted") <=> (MissingNames # {})
        /\ boot_pc = "aborted" =>
              /\ boot_error # None
              /\ boot_error[1].type = "EnvironmentError"
              /\ SeqRange(boot_error[1].names) = MissingNames
              /\ Len(boot_error[1].names) = Cardinality(MissingNames)
              /\ client = None
              /\ listener = <<>>
        /\ (boot_pc = "aborted" /\ MissingNames = {"INFLUXDB_TOKEN"})
              => boot_error[1].msg = "Missing environment variables: INFLUXDB_TOKEN"

C6_Witness ==
    /\ boot_pc = "aborted"
    /\ env["INFLUXDB_TOKEN"] = Some("")
    /\ MissingNames = {"INFLUXDB_TOKEN"}

\* C7: get_local_ip never surfaces an error: start-up never ends in an
\* exception of get_local_ip, and once it is past get_local_ip an address
\* has been returned.
C7_AlwaysReturnsAddress ==
    /\ boot_pc # "crashed"
    /\ boot_pc \in {"serve", "serving"} => local_ip # None

(***************************************************************************)
(* Properties of the served application (Spec).                            *)
(***************************************************************************)
Answered(r) == pc[r] = "done"

House(r) == path[r] = "/house"

\* C4: a GET /house whose store query raised is answered with status 500 and
\* the fixed, non-empty description, whatever the exception; the text of the
\* exception is printed on the console and is not the response's body.
C4_OpaqueFailure ==
    \A r \in Requests :
        (Answered(r) /\ House(r) /\ ~reply[r][1].ok) =>
            /\ response[r][1].status = 500
            /\ response[r][1].body = "Internal Server Error while querying InfluxDB"
            /\ response[r][1].body # ""
            /\ response[r][1].body # reply[r][1].error
            /\ console[r] = Some("Error querying InfluxDB: " \o reply[r][1].error)

C4_Witness ==
    \E r, q \in Requests :
        /\ Answered(r) /\ House(r) /\ reply[r][1] = QueryRaises("timed out")
        /\ Answered(q) /\ House(q) /\ reply[q][1] = QueryRaises("unauthorized access")
        /\ response[r] = response[q]

\* the string forms the store's values can take, and the JSON texts of the
\* four-key objects over them
ValueStrings == { "21.5", "21.8", "55", "1013.2", "OK", "OK \"A\"\\1", "True", "-3", "-0.5" }

MaybeString == { None } \cup { Some(s) : s \in ValueStrings }

\* the JSON texts of one member: the key, a colon and null or a quoted string
Members(k) == { JsonString(k) \o ": " \o JsonValue(v) : v \in MaybeString }

CompleteBodies ==
    { "{" \o a \o ", " \o b \o ", " \o c \o ", " \o d \o "}" :
        a \in Members("Temperature"), b \in Members("Humidity"),
        c \in Members("Pressure"), d \in Members("Sensor") }

\* C5: every answered GET /house has status 200 with the JSON text of a
\* complete four-key object, or status 500; a 200 is given only when the
\* query succeeded, a successful empty result gives the all-null object, the
\* four-table result gives its values as escaped JSON strings, a
\* failed query or a later exception gives 500, and the process goes on
\* serving.
C5_TwoOutcomes ==
    /\ boot_pc = "serving"
    /\ \A r \in Requests :
        (Answered(r) /\ House(r)) =>
            LET resp == response[r][1]
            IN  /\ \/ /\ resp.status = 200
                      /\ resp.mimetype = "application/json"
                      /\ resp.body \in CompleteBodies
                      /\ reply[r][1].ok
                   \/ resp.status = 500
                /\ (resp.status = 200 /\ reply[r][1].result = <<>>) =>
                      resp.body = "{\"Temperature\": null, \"Humidity\": null, \"Pressure\": null, \"Sensor\": null}"
                /\ (resp.status = 200 /\ Len(reply[r][1].result) = 4) =>
                      resp.body = "{\"Temperature\": \"21.5\", \"Humidity\": \"55\", \"Pressure\": \"1013.2\", \"Sensor\": \"OK \\\"A\\\"\\\\1\"}"
                /\ ~reply[r][1].ok => resp.status = 500
                /\ console[r] = None <=> resp.status = 200

C5_Witness ==
    \E r, q \in Requests :
        /\ r < q
        /\ Answered(r) /\ House(r) /\ reply[r][1].ok /\ response[r][1].status = 500
        /\ Answered(q) /\ House(q) /\ reply[q][1] = QueryOk(<<>>)
        /\ response[q][1].status = 200

\* C9: the body of a 200 response is the JSON text of the fold of the
\* request's own query result, a request whose own query raised gets the
\* 500 and prints its own exception, and no step of the served application
\* changes the configuration or the client handle.
C9_Isolation ==
    /\ [](\A r \in Requests :
            (Answered(r) /\ House(r)) =>
                /\ response[r][1].status = 200 =>
                      /\ reply[r][1].ok
                      /\ response[r][1].body = JsonDumps(process_query_results(reply[r][1].result))
                /\ ~reply[r][1].ok =>
                      /\ response[r][1].status = 500
                      /\ console[r] = Some(ErrorLine(reply[r][1].error)))
    /\ [][config' = config /\ client' = client /\ env' = env]_vars

C9_Witness ==
    \E r, q \in Requests :
        /\ r < q
        /\ Answered(r) /\ House(r) /\ Answered(q) /\ House(q)
        /\ reply[r][1] = QueryOk(<<>>)
        /\ reply[q][1].ok /\ reply[q][1].result # <<>>
        /\ response[r][1].status = 200 /\ response[q][1].status = 200
        /\ response[r][1].body # response[q][1].body

RECURSIVE SumTo(_, _)
SumTo(f, n) == IF n = 0 THEN 0 ELSE f[n] + SumTo(f, n - 1)

\* a GET /house request that has reached its handler
Handled(r) == House(r) /\ pc[r] \in {"waiting", "replied", "done"}

\* C10: a GET /house request has sent exactly one query from the moment its
\* handler runs, whether the query succeeds or fails, any other request has
\* sent none, and the queries sent in total are as many as the GET /house
\* requests handled.
C10_OneQueryPerRequest ==
    /\ \A r \in Requests : queries[r] = IF Handled(r) THEN 1 ELSE 0
    /\ SumTo(queries, Cardinality(Requests)) = Cardinality({ r \in Requests : Handled(r) })

C10_Witness ==
    \E r, q \in Requests :
        /\ Answered(r) /\ House(r) /\ ~reply[r][1].ok /\ queries[r] = 1
        /\ Answered(q) /\ path[q] = "/" /\ queries[q] = 0

(***************************************************************************)
(* Properties of the worker pool (PoolSpec).                               *)
(***************************************************************************)
PoolRequests == 1..(threads + ExtraRequests)

\* worker threads held by a query that never returns
Blocked == { r \in Requests : pc[r] = "waiting" /\ store[r] = "blocked" }

\* C8 as stated: whatever the number of blocked requests, a queued request
\* whose own query is not blocked is eventually answered.
C8_AnyNumberBlocked ==
    \A r \in PoolRequests :
        (pc[r] = "queued" /\ store[r] = "responsive") ~> Answered(r)

\* C8 as amended: a queued request whose own query is not blocked is
\* eventually answered unless blocked queries come to hold every worker
\* thread.
C8_BelowPoolSize ==
    \A r \in PoolRequests :
        (pc[r] = "queued" /\ store[r] = "responsive")
            ~> (Answered(r) \/ Cardinality(Blocked) = threads)

C8_Witness ==
    \E b, r \in Requests :
        /\ b < r
        /\ Cardinality(Blocked) = threads - 1
        /\ b \in Blocked
        /\ House(r) /\ Answered(r)

=============================================================================
